---------------------------- MODULE Spec2Model ----------------------------
(***************************************************************************)
(* Model of therapy_sessions/ml_model.py: the speech-disfluency analysis   *)
(* pipeline analyze_audio and its helpers _predict_from_model,             *)
(* _smooth_preds, _group_consecutive and _generate_report_from_ranges.     *)
(* therapy_sessions/views.py is modelled as far as the temporary files of   *)
(* its upload views go.                                                    *)
(*                                                                         *)
(* Units.  Times are counted in samples (1 / sr seconds), so that          *)
(* hop_time = hop_length / sr is hop_length ticks and every time the code  *)
(* computes is an integer.  Energies are small integers; the heuristic     *)
(* threshold and the heuristic confidences are counted in quarters of an   *)
(* energy unit, which is what the linear interpolation of a 25th           *)
(* percentile needs.  Model probabilities are counted in hundredths.  The  *)
(* stammer rate is counted in hundredths of a percent (its 2 decimals).    *)
(***************************************************************************)
EXTENDS Integers, Sequences, FiniteSets, TLC

VARIABLES
    pc,             \* position inside analyze_audio / the stage under test
    whisper_model,  \* module global: "none" | "ok" | "broken"
    librosa,        \* module global: TRUE iff numpy and librosa imported
    keras_model,    \* module global: [kind, probs]
    transcription,  \* local of analyze_audio
    y,              \* local: the decoded waveform, or NoAudio
    sr,             \* local: sample rate, or NoRate
    duration,       \* local: duration in ticks, or NoDuration
    raw_output,     \* local: the diagnostic mapping
    frames,         \* frames the MFCC and RMS transforms return per chunk
    features,       \* local: the feature batch, one row per kept chunk
    pred_bins,      \* local: labels
    confidences,    \* local: confidences
    smoothed,       \* local: smoothed pairs
    grouped,        \* local: ranges
    total_arg,      \* total_chunks argument handed to the report synthesizer
    report,         \* the returned mapping, or NoReport
    vpc,            \* position inside a view of therapy_sessions/views.py
    request,        \* the upload request a view handles, and its environment
    tmp_files,      \* the temporary files that exist on disk
    tmp_made,       \* how many temporary files have been created
    vlocals,        \* locals of the view: the temporary paths it holds
    response,       \* HTTP status of the view's response, or NoResponse
    pairings,       \* the rows of the Pairing table
    is_assigned,    \* Speaker.is_assigned of every speaker
    next_pk         \* how many Pairing rows have been inserted

ml_vars == <<pc, whisper_model, librosa, keras_model, transcription, y, sr,
             duration, raw_output, frames, features, pred_bins, confidences,
             smoothed, grouped, total_arg, report>>

view_vars == <<vpc, request, tmp_files, tmp_made, vlocals, response>>

db_vars == <<pairings, is_assigned, next_pk>>

vars == <<ml_vars, view_vars, db_vars>>

----------------------------------------------------------------------------
(* Bounds of the model *)

\* longest label sequence handed to the stages checked on their own
MaxLen == 5
\* waveforms carry 0 .. MaxSmallHops hops beyond one chunk, or as many chunks
\* as the energy sample holds and up to MaxOver + 1 chunks more
MaxSmallHops == 9
MaxOver == 1
\* longest segment of the piecewise-constant content of a waveform
MaxSeg == 2
\* longest run of a label sequence made of three runs
MaxRun == 3
\* users, speakers, and Pairing rows ever inserted
MaxUsers == 2
MaxSpeakers == 2
MaxPairings == 3
\* the transforms return up to MaxFrameDrift frames, or the target frame
\* count give or take MaxFrameDrift, or the nominal count
MaxFrameDrift == 3

----------------------------------------------------------------------------
(* Program constants *)

SampleRate == 16000
CHUNK_DURATION == 1
HOP_LENGTH == 128
EnergySampleCap == 50
ModelThreshold == 70
WindowSize == 3
HeuristicPercentile == 25
N_MFCC == 13
TARGET_FRAMES == 86
NoDuration == -1
NoRate == 0
NoResponse == 0
NoPath == 0
NoSpeakerId == 0

----------------------------------------------------------------------------
(* Arithmetic helpers: Python's min, max, sum, abs, round *)

Min(a, b) == IF a <= b THEN a ELSE b
Max(a, b) == IF a >= b THEN a ELSE b
Abs(a) == IF a < 0 THEN -a ELSE a

RECURSIVE SumSeq(_)
\* sum(s); the sequence is halved so that the evaluation stays shallow
SumSeq(s) ==
    IF Len(s) = 0 THEN 0
    ELSE IF Len(s) = 1 THEN s[1]
    ELSE LET mid == Len(s) \div 2
         IN  SumSeq(SubSeq(s, 1, mid)) + SumSeq(SubSeq(s, mid + 1, Len(s)))

\* a / b rounded to the nearest integer, ties to even: round() of Python 3.
\* As the rate of s chunks out of t it equals round(s / t * 100.0, 2) in
\* floating point for every t that is not a multiple of 160.
RoundHalfEven(a, b) ==
    LET q == a \div b
        r == a % b
    IN  IF 2 * r > b \/ (2 * r = b /\ q % 2 = 1) THEN q + 1 ELSE q

\* f"{x:.1f}" of a time of t ticks
Fmt1(t, rate) ==
    LET tenths == RoundHalfEven(10 * t, rate)
    IN  ToString(tenths \div 10) \o "." \o ToString(tenths % 10)

\* f"{v:.2f}" of a rate of r hundredths
Fmt2(r) ==
    ToString(r \div 100) \o "." \o ToString((r % 100) \div 10)
        \o ToString(r % 10)

----------------------------------------------------------------------------
(* _smooth_preds *)

SmoothLabelTiesUp(window) ==
    IF 2 * SumSeq(window) >= Len(window) THEN 1 ELSE 0

\* line 79: sm = 1 if sum(window) > (len(window)//2) else 0
SmoothLabel(window) ==
    IF SumSeq(window) > (Len(window) \div 2) THEN 1 ELSE 0

SmoothWindowForward(bins, i, window_size) ==
    SubSeq(bins, i + 1, Min(Len(bins), i + window_size))

SmoothWindowPadded(bins, i, window_size) ==
    [k \in 1 .. window_size |->
        LET j == i - (window_size \div 2) + k - 1
        IN  IF j >= 0 /\ j < Len(bins) THEN bins[j + 1] ELSE 0]

\* lines 76-78: the window of chunk i (0-based)
SmoothWindow(bins, i, window_size) ==
    LET n == Len(bins)
        start == Max(0, i - (window_size \div 2))
        end == Min(n, i + (window_size \div 2) + 1)
    IN  SubSeq(bins, start + 1, end)

smooth_preds(bins, confs, window_size) ==
    [k \in 1 .. Len(bins) |->
        <<SmoothLabel(SmoothWindow(bins, k - 1, window_size)),
          IF confs # <<>> THEN confs[k] ELSE 0>>]

\* line 80 raises IndexError when confidences is non-empty and shorter
SmoothRaises(bins, confs) == confs # <<>> /\ Len(confs) < Len(bins)

----------------------------------------------------------------------------
(* _group_consecutive *)

LabelStr(lab) == IF lab = 1 THEN "Stammered" ELSE "Fluent"

CloseRangeEndAtLast(st, hop_length, chunk_ticks, audio_duration) ==
    [start |-> Min(st.start_idx * hop_length, audio_duration),
     end |-> Min((st.start_idx + Len(st.chunk_indices) - 1) * hop_length
                    + chunk_ticks, audio_duration),
     label |-> LabelStr(st.current_label),
     avg_conf |-> [num |-> SumSeq(st.current_conf),
                   den |-> Len(st.current_conf)],
     chunks |-> st.chunk_indices]

\* lines 106-116 and 124-134: close the current range
CloseRange(st, hop_length, chunk_ticks, audio_duration) ==
    [start |-> Min(st.start_idx * hop_length, audio_duration),
     end |-> Min(st.start_idx * hop_length + chunk_ticks, audio_duration),
     label |-> LabelStr(st.current_label),
     avg_conf |-> [num |-> SumSeq(st.current_conf),
                   den |-> Len(st.current_conf)],
     chunks |-> st.chunk_indices]

GroupStepDropsFirst(st, pairs, i, hop_length, chunk_ticks, audio_duration) ==
    LET lab == pairs[i + 1][1]
        conf == pairs[i + 1][2]
    IN  IF lab = st.current_label
        THEN [st EXCEPT !.current_conf = Append(@, conf),
                        !.chunk_indices = Append(@, i)]
        ELSE [ranges |-> Append(st.ranges,
                  CloseRange(st, hop_length, chunk_ticks, audio_duration)),
              current_label |-> lab,
              current_conf |-> <<conf>>,
              start_idx |-> i,
              chunk_indices |-> <<>>]

GroupStepAlwaysSplits(st, pairs, i, hop_length, chunk_ticks, audio_duration) ==
    [ranges |-> Append(st.ranges,
         CloseRange(st, hop_length, chunk_ticks, audio_duration)),
     current_label |-> pairs[i + 1][1],
     current_conf |-> <<pairs[i + 1][2]>>,
     start_idx |-> i,
     chunk_indices |-> <<i>>]

GroupStepKeepsIndices(st, pairs, i, hop_length, chunk_ticks, audio_duration) ==
    LET lab == pairs[i + 1][1]
        conf == pairs[i + 1][2]
    IN  IF lab = st.current_label
        THEN [st EXCEPT !.current_conf = Append(@, conf),
                        !.chunk_indices = Append(@, i)]
        ELSE [ranges |-> Append(st.ranges,
                  CloseRange(st, hop_length, chunk_ticks, audio_duration)),
              current_label |-> lab,
              current_conf |-> <<conf>>,
              start_idx |-> i,
              chunk_indices |-> Append(st.chunk_indices, i)]

\* lines 99-121: one iteration of the loop, for chunk i (0-based)
GroupStep(st, pairs, i, hop_length, chunk_ticks, audio_duration) ==
    LET lab == pairs[i + 1][1]
        conf == pairs[i + 1][2]
    IN  IF lab = st.current_label
        THEN [st EXCEPT !.current_conf = Append(@, conf),
                        !.chunk_indices = Append(@, i)]
        ELSE [ranges |-> Append(st.ranges,
                  CloseRange(st, hop_length, chunk_ticks, audio_duration)),
              current_label |-> lab,
              current_conf |-> <<conf>>,
              start_idx |-> i,
              chunk_indices |-> <<i>>]

RECURSIVE GroupLoop(_, _, _, _, _, _, _)
\* lines 99-121: the iterations lo .. hi of the loop, in order, from state
\* st; the index range is halved so that the evaluation stays shallow.  A
\* run starts at or before the chunk just read, so the test on left holds
\* in every state of the loop; it evaluates the first half before the second
GroupLoop(st, pairs, lo, hi, hop_length, chunk_ticks, audio_duration) ==
    IF lo > hi
    THEN st
    ELSE IF lo = hi
    THEN GroupStep(st, pairs, lo, hop_length, chunk_ticks, audio_duration)
    ELSE LET mid == (lo + hi) \div 2
             left == GroupLoop(st, pairs, lo, mid, hop_length, chunk_ticks,
                               audio_duration)
         IN  IF left.start_idx <= mid
             THEN GroupLoop(left, pairs, mid + 1, hi, hop_length,
                            chunk_ticks, audio_duration)
             ELSE left

\* chunk_duration is in seconds, audio_duration in ticks
group_consecutive(pairs, rate, hop_length, chunk_duration, audio_duration) ==
    IF pairs = <<>>
    THEN <<>>
    ELSE LET st0 == [ranges |-> <<>>,
                     current_label |-> pairs[1][1],
                     current_conf |-> <<pairs[1][2]>>,
                     start_idx |-> 0,
                     chunk_indices |-> <<0>>]
             stN == GroupLoop(st0, pairs, 1, Len(pairs) - 1, hop_length,
                              chunk_duration * rate, audio_duration)
         IN  Append(stN.ranges,
                    CloseRange(stN, hop_length, chunk_duration * rate,
                               audio_duration))

\* line 306 hands duration if duration else 0.0; min(x, None) would raise
GroupRaises(pairs, audio_duration) ==
    pairs # <<>> /\ audio_duration = NoDuration

----------------------------------------------------------------------------
(* _generate_report_from_ranges *)

RECURSIVE CountChunks(_, _)
\* lines 142-148: the chunks of the ranges labelled (stam = TRUE) or not
\* labelled (stam = FALSE) "Stammered"
CountChunks(ranges, stam) ==
    IF ranges = <<>>
    THEN 0
    ELSE (IF (Head(ranges).label = "Stammered") = stam
          THEN Len(Head(ranges).chunks) ELSE 0)
         + CountChunks(Tail(ranges), stam)

RECURSIVE Periods(_, _)
\* line 145: one "S.S-E.Es" string per Stammered range, in range order
Periods(ranges, rate) ==
    IF ranges = <<>>
    THEN <<>>
    ELSE (IF Head(ranges).label = "Stammered"
          THEN <<Fmt1(Head(ranges).start, rate) \o "-"
                  \o Fmt1(Head(ranges).end, rate) \o "s">>
          ELSE <<>>)
         \o Periods(Tail(ranges), rate)

TotalChunksIgnoresArg(total_chunks, stammered_chunks, fluent_chunks) ==
    stammered_chunks + fluent_chunks

\* line 150
TotalChunks(total_chunks, stammered_chunks, fluent_chunks) ==
    IF total_chunks # 0 THEN total_chunks
    ELSE stammered_chunks + fluent_chunks

StammerRateOverFluent(stammered_chunks, total_chunks) ==
    IF total_chunks - stammered_chunks > 0
    THEN RoundHalfEven(10000 * stammered_chunks,
                       total_chunks - stammered_chunks)
    ELSE 0

\* lines 151-152, in hundredths of a percent
StammerRate(stammered_chunks, total_chunks) ==
    IF total_chunks > 0
    THEN RoundHalfEven(10000 * stammered_chunks, total_chunks)
    ELSE 0

SeverityInclusiveLow(rate) ==
    IF rate <= 3000 THEN "Low"
    ELSE IF rate <= 6500 THEN "Moderate"
    ELSE "High"

\* lines 153-158
Severity(rate) ==
    IF rate < 3000 THEN "Low"
    ELSE IF rate <= 6500 THEN "Moderate"
    ELSE "High"

\* lines 160-164
recs_map ==
    [Low |-> <<"Continue practicing fluent speech patterns.",
               "Engage in regular reading aloud exercises.">>,
     Moderate |-> <<"Practice slow and deliberate speech exercises.",
                    "Use breathing techniques to reduce stammering.",
                    "Consider consulting a speech therapist.">>,
     High |-> <<"Work with a speech therapist for personalized guidance.",
                "Practice pausing techniques during speech.",
                "Use mindfulness exercises to reduce anxiety.">>]

PeriodsOrEmpty(stammered_periods) == stammered_periods

\* line 168
PeriodsOrNone(stammered_periods) ==
    IF stammered_periods # <<>> THEN stammered_periods ELSE <<"None">>

\* audio_duration is in ticks, or NoDuration for None
generate_report_from_ranges(ranges, total_chunks, audio_duration, text) ==
    LET stammered_chunks == CountChunks(ranges, TRUE)
        fluent_chunks == CountChunks(ranges, FALSE)
        stammered_periods == Periods(ranges, SampleRate)
        total == TotalChunks(total_chunks, stammered_chunks, fluent_chunks)
        stammer_rate_val == StammerRate(stammered_chunks, total)
        severity == Severity(stammer_rate_val)
    IN  [date |-> "YYYY-MM-DD",
         stammeredPeriods |-> PeriodsOrNone(stammered_periods),
         stammeredChunks |-> stammered_chunks,
         fluentChunks |-> fluent_chunks,
         stammerRate |-> Fmt2(stammer_rate_val) \o "%",
         stammer_rate |-> stammer_rate_val,
         audioDuration |-> IF audio_duration # NoDuration /\ audio_duration # 0
                           THEN Fmt1(audio_duration, SampleRate) \o "s"
                           ELSE "null",
         severity |-> severity,
         recommendations |-> recs_map[severity],
         transcription |-> text]

----------------------------------------------------------------------------
(* Mapping helpers: dict.get and item assignment on raw_output and report *)

Get(m, key, default) == IF key \in DOMAIN m THEN m[key] ELSE default
Put(m, key, value) == (key :> value) @@ m
EmptyMap == [k \in {} |-> 0]
NoReport == EmptyMap

\* a view's request and locals before any request is handled; a path is
\* the number of the temporary file, NoPath while the local is unbound
NoRequest ==
    [view |-> "none", owner |-> FALSE, has_audio |-> FALSE, ext_ok |-> FALSE,
     decodable |-> FALSE, ffmpeg_ok |-> FALSE]
NoLocals == [converted |-> NoPath, tmp_wav_path |-> NoPath, tmp_in |-> NoPath,
             tmp_conv |-> NoPath, tmp_to_analyze |-> NoPath]

----------------------------------------------------------------------------
(* transcribe *)

\* lines 48-56: "" without a model or when whisper raises, else the text
transcribe(model) ==
    IF model = "none" THEN ""
    ELSE IF model = "broken" THEN ""
    ELSE "hello"

----------------------------------------------------------------------------
(* The decoded waveform.  A waveform is its length in samples, whether all
   its samples are finite (librosa.feature.mfcc raises on a buffer that is
   not), and a piecewise-constant content: the chunk that starts at hop i
   has mean RMS energy levels[1] for i < a, levels[2] for a <= i < a + b
   and levels[3] beyond. *)

NoAudio == [loaded |-> FALSE, len |-> 0, finite |-> TRUE, a |-> 0, b |-> 0,
            levels |-> <<0, 0, 0>>]

Levels == {0, 1}

\* no chunk, one chunk (exactly, and with a tail shorter than one hop), a
\* few chunks, and chunk counts around the cap of the energy sample
Lengths ==
    {0, SampleRate - 1, SampleRate + HOP_LENGTH - 1}
    \cup {SampleRate + HOP_LENGTH * k :
            k \in (0 .. MaxSmallHops)
                  \cup ((EnergySampleCap - 1) .. (EnergySampleCap + MaxOver))}

Waveforms ==
    {[loaded |-> TRUE, len |-> n, finite |-> f, a |-> a, b |-> b,
      levels |-> <<l1, l2, l3>>] :
        n \in Lengths, f \in BOOLEAN, a \in 0 .. MaxSeg, b \in 0 .. MaxSeg,
        l1 \in Levels, l2 \in Levels, l3 \in Levels}

\* the waveforms that differ in what a run can observe: an unused segment
\* carries the level of the next one, and a waveform that is not finite
\* carries no content
Canonical(w) ==
    /\ (w.a = 0 => w.levels[1] = w.levels[2])
    /\ (w.b = 0 => w.levels[2] = w.levels[3])
    /\ (~w.finite => w.a = 0 /\ w.b = 0 /\ w.levels = <<0, 0, 0>>)

\* lines 254-267: float(np.mean(energy)) of the chunk that starts at hop i
ChunkEnergy(w, i) ==
    IF i < w.a THEN w.levels[1]
    ELSE IF i < w.a + w.b THEN w.levels[2]
    ELSE w.levels[3]

----------------------------------------------------------------------------
(* analyze_audio: feature extraction, lines 227-275 *)

NumChunksNoLast(len, chunk_size, hop_size) ==
    Max(0, (len - chunk_size) \div hop_size)

\* line 237
NumChunks(len, chunk_size, hop_size) ==
    Max(0, (len - chunk_size) \div hop_size + 1)

\* lines 242-244: len(y[s:e])
SliceLen(len, s, e) == Min(e, len) - Min(s, len)

\* lines 241-246: the chunks the loop does not skip, in loop order
KeptChunks(w, num_chunks, chunk_size) ==
    LET Full(i) ==
            SliceLen(w.len, i * HOP_LENGTH, i * HOP_LENGTH + chunk_size)
                = chunk_size
    IN  SelectSeq([k \in 1 .. num_chunks |-> k - 1], Full)

\* lines 241-267: librosa.feature.mfcc raises on the first kept chunk of a
\* waveform that is not finite; else one energy per kept chunk
ExtractLoop(w, num_chunks, chunk_size) ==
    LET kept == KeptChunks(w, num_chunks, chunk_size)
    IN  IF kept # <<>> /\ ~w.finite
        THEN [exc |-> TRUE, energies |-> <<>>]
        ELSE [exc |-> FALSE,
              energies |-> [k \in 1 .. Len(kept) |-> ChunkEnergy(w, kept[k])]]

\* lines 235-267: the body of the try block
BuildFeatures(w, rate) ==
    LET chunk_size == CHUNK_DURATION * rate
    IN  ExtractLoop(w, NumChunks(w.len, chunk_size, HOP_LENGTH), chunk_size)

\* lines 247 and 254: librosa frames a chunk of chunk_size samples, centred,
\* every hop_length samples
NominalFrames(chunk_size, hop_length) ==
    [mfcc |-> 1 + (chunk_size \div hop_length),
     rms |-> 1 + (chunk_size \div hop_length)]

\* An array is modelled by its shape.
PadOnly(a, target) ==
    IF a.rows < target
    THEN [rows |-> a.rows + (target - a.rows), cols |-> a.cols]
    ELSE a

\* lines 248-251 and 255-258: np.pad at the end of axis 0, or a[:target]
PadOrTruncate(a, target) ==
    IF a.rows < target
    THEN [rows |-> a.rows + (target - a.rows), cols |-> a.cols]
    ELSE IF a.rows > target
    THEN [rows |-> Min(a.rows, target), cols |-> a.cols]
    ELSE a

\* line 265: np.concatenate(arrays, axis=1) raises unless the row counts agree
ConcatenateCols(arrays) ==
    [exc |-> \E k \in 1 .. Len(arrays) : arrays[k].rows # arrays[1].rows,
     rows |-> arrays[1].rows,
     cols |-> SumSeq([k \in 1 .. Len(arrays) |-> arrays[k].cols])]

\* lines 247-265: the shape of the feature vector of one chunk, from the
\* frame counts fr the two transforms return
ChunkFeatureShape(fr) ==
    LET mfcc == PadOrTruncate([rows |-> fr.mfcc, cols |-> N_MFCC],
                              TARGET_FRAMES)
        delta_mfcc == mfcc
        energy == PadOrTruncate([rows |-> fr.rms, cols |-> 1], TARGET_FRAMES)
        pause_duration == energy
        energy_variance == [rows |-> 1 * TARGET_FRAMES, cols |-> energy.cols]
        pitch_proxy == [rows |-> mfcc.rows, cols |-> 1]
    IN  ConcatenateCols(<<mfcc, delta_mfcc, pause_duration, energy_variance,
                          pitch_proxy>>)

\* line 271: chunk_energies[:50]
EnergySample(chunk_energies) ==
    SubSeq(chunk_energies, 1, Min(Len(chunk_energies), EnergySampleCap))

----------------------------------------------------------------------------
(* _predict_from_model, lines 58-69.  A feature vector is abstracted to the
   energy level of its chunk; a loaded model maps it to a probability in
   hundredths, or raises on every batch ("broken"). *)

Probs == {70, 90}

KerasModels ==
    {[kind |-> "none", probs |-> [l \in Levels |-> 0]],
     [kind |-> "broken", probs |-> [l \in Levels |-> 0]]}
    \cup {[kind |-> "ok", probs |-> f] : f \in [Levels -> Probs]}

predict_from_model(feats, model, threshold) ==
    IF Len(feats) = 0 \/ model.kind = "none"
    THEN [bins |-> <<>>, confs |-> <<>>]
    ELSE IF model.kind = "broken"
         THEN [bins |-> <<>>, confs |-> <<>>]
         ELSE [bins |-> [k \in 1 .. Len(feats) |->
                            IF model.probs[feats[k]] > threshold
                            THEN 1 ELSE 0],
               confs |-> [k \in 1 .. Len(feats) |-> model.probs[feats[k]]]]

----------------------------------------------------------------------------
(* The energy heuristic, lines 288-302 *)

\* the k-th smallest (0-based) of values: sorted(values)[k]
KthSmallest(values, k) ==
    LET idx == DOMAIN values
        v == CHOOSE x \in {values[j] : j \in idx} :
                 /\ Cardinality({j \in idx : values[j] < x}) <= k
                 /\ Cardinality({j \in idx : values[j] <= x}) > k
    IN  v

\* np.percentile(values, q) with linear interpolation, times 4: for q = 25
\* the position (n - 1) * q / 100 is a multiple of 1/4
Percentile4(values, q) ==
    LET n == Len(values)
        pos100 == (n - 1) * q
        lo == pos100 \div 100
        frac4 == (4 * (pos100 % 100)) \div 100
        hi == Min(lo + 1, n - 1)
        below == KthSmallest(values, lo)
        above == KthSmallest(values, hi)
    IN  4 * below + frac4 * (above - below)

HeuristicInclusive(raw) ==
    LET energies == Get(raw, "chunk_energies_sample", <<>>)
    IN  IF energies # <<>>
        THEN LET thr == Percentile4(energies, HeuristicPercentile)
             IN  [bins |-> [k \in 1 .. Len(energies) |->
                               IF 4 * energies[k] <= thr THEN 1 ELSE 0],
                  confs |-> [k \in 1 .. Len(energies) |->
                                Abs(4 * energies[k] - thr)],
                  raw |-> Put(raw, "heuristic_threshold", thr)]
        ELSE [bins |-> <<>>, confs |-> <<>>, raw |-> raw]

\* lines 290-298; thr, and the confidences, in quarters of an energy unit
Heuristic(raw) ==
    LET energies == Get(raw, "chunk_energies_sample", <<>>)
    IN  IF energies # <<>>
        THEN LET thr == Percentile4(energies, HeuristicPercentile)
             IN  [bins |-> [k \in 1 .. Len(energies) |->
                               IF 4 * energies[k] < thr THEN 1 ELSE 0],
                  confs |-> [k \in 1 .. Len(energies) |->
                                Abs(4 * energies[k] - thr)],
                  raw |-> Put(raw, "heuristic_threshold", thr)]
        ELSE [bins |-> <<>>, confs |-> <<>>, raw |-> raw]

----------------------------------------------------------------------------
(* analyze_audio, lines 179-311, one action per stage *)

\* lines 212-223: the minimal report of the early exit
MinimalReport(text) ==
    [date |-> "YYYY-MM-DD",
     stammeredPeriods |-> <<"None">>,
     stammeredChunks |-> 0,
     fluentChunks |-> 0,
     stammerRate |-> "0.00%",
     stammer_rate |-> 0,
     audioDuration |-> "null",
     severity |-> "Low",
     recommendations |-> <<"Continue practicing fluent speech patterns.">>,
     transcription |-> text]

ExtractNoTry(w, rate) ==
    LET r == BuildFeatures(w, rate)
    IN  [exc |-> r.exc, failed |-> FALSE, energies |-> r.energies]

\* lines 227-275: the try block and its handler
ExtractTry(w, rate) ==
    LET r == BuildFeatures(w, rate)
    IN  IF r.exc
        THEN [exc |-> FALSE, failed |-> TRUE, energies |-> <<>>]
        ELSE [exc |-> FALSE, failed |-> FALSE, energies |-> r.energies]

\* line 306: duration if duration else 0.0
DurationOrZero(d) == IF d # NoDuration /\ d # 0 THEN d ELSE 0

\* line 210: y is None or sr is None
NoWaveform(w, rate) == ~w.loaded \/ rate = NoRate

\* lines 188-194
Transcribe ==
    /\ pc = "start"
    /\ transcription' = IF whisper_model # "none"
                        THEN transcribe(whisper_model) ELSE ""
    /\ pc' = "load"
    /\ UNCHANGED view_vars
    /\ UNCHANGED db_vars
    /\ UNCHANGED frames
    /\ UNCHANGED <<whisper_model, librosa, keras_model, y, sr, duration,
                   raw_output, features, pred_bins, confidences, smoothed,
                   grouped, total_arg, report>>

\* lines 201-207: librosa.load raises, or decodes a waveform at 16000 Hz
LoadAudio ==
    /\ pc = "load"
    /\ \/ /\ ~librosa
          /\ UNCHANGED <<y, sr, duration, raw_output>>
       \/ /\ librosa
          /\ UNCHANGED <<y, sr, duration, raw_output>>
       \/ /\ librosa
          /\ \E w \in {x \in Waveforms : Canonical(x)} :
                /\ y' = w
                /\ sr' = SampleRate
                /\ duration' = w.len
                /\ raw_output' = Put(raw_output, "duration", w.len)
    /\ pc' = "check_audio"
    /\ UNCHANGED view_vars
    /\ UNCHANGED db_vars
    /\ UNCHANGED frames
    /\ UNCHANGED <<whisper_model, librosa, keras_model, transcription,
                   features, pred_bins, confidences, smoothed, grouped,
                   total_arg, report>>

\* lines 210-224
EarlyExit ==
    /\ pc = "check_audio"
    /\ NoWaveform(y, sr)
    /\ report' = MinimalReport(transcription)
    /\ pc' = "done"
    /\ UNCHANGED view_vars
    /\ UNCHANGED db_vars
    /\ UNCHANGED frames
    /\ UNCHANGED <<whisper_model, librosa, keras_model, transcription, y, sr,
                   duration, raw_output, features, pred_bins, confidences,
                   smoothed, grouped, total_arg>>

\* lines 227-275
ExtractFeatures ==
    /\ pc = "check_audio"
    /\ ~NoWaveform(y, sr)
    /\ LET r == ExtractTry(y, sr)
       IN  IF r.exc
           THEN /\ pc' = "raised"
                /\ UNCHANGED <<features, raw_output>>
           ELSE /\ pc' = "classify"
                /\ features' = r.energies
                /\ raw_output' =
                     IF r.failed
                     THEN Put(raw_output, "num_chunks", 0)
                     ELSE Put(Put(raw_output, "num_chunks", Len(r.energies)),
                              "chunk_energies_sample",
                              EnergySample(r.energies))
    /\ UNCHANGED view_vars
    /\ UNCHANGED db_vars
    /\ UNCHANGED frames
    /\ UNCHANGED <<whisper_model, librosa, keras_model, transcription, y, sr,
                   duration, pred_bins, confidences, smoothed, grouped,
                   total_arg, report>>

\* line 280: the condition of the model path
UseModel(model, feats) == model.kind # "none" /\ Len(feats) > 0

\* lines 280-286
ClassifyModel ==
    /\ pc = "classify"
    /\ UseModel(keras_model, features)
    /\ LET r == predict_from_model(features, keras_model, ModelThreshold)
       IN  /\ pred_bins' = r.bins
           /\ confidences' = r.confs
           /\ raw_output' =
                Put(raw_output, "model_conf_mean",
                    IF r.confs # <<>>
                    THEN [num |-> SumSeq(r.confs), den |-> Len(r.confs)]
                    ELSE [num |-> 0, den |-> 0])
    /\ pc' = "smooth"
    /\ UNCHANGED view_vars
    /\ UNCHANGED db_vars
    /\ UNCHANGED frames
    /\ UNCHANGED <<whisper_model, librosa, keras_model, transcription, y, sr,
                   duration, features, smoothed, grouped, total_arg, report>>

\* lines 287-302
ClassifyHeuristic ==
    /\ pc = "classify"
    /\ ~UseModel(keras_model, features)
    /\ LET h == Heuristic(raw_output)
       IN  /\ pred_bins' = h.bins
           /\ confidences' = h.confs
           /\ raw_output' = h.raw
    /\ pc' = "smooth"
    /\ UNCHANGED view_vars
    /\ UNCHANGED db_vars
    /\ UNCHANGED frames
    /\ UNCHANGED <<whisper_model, librosa, keras_model, transcription, y, sr,
                   duration, features, smoothed, grouped, total_arg, report>>

\* line 305
Smooth ==
    /\ pc = "smooth"
    /\ IF pred_bins # <<>> /\ SmoothRaises(pred_bins, confidences)
       THEN pc' = "raised" /\ UNCHANGED smoothed
       ELSE /\ pc' = "group"
            /\ smoothed' = IF pred_bins # <<>>
                           THEN smooth_preds(pred_bins, confidences, WindowSize)
                           ELSE <<>>
    /\ UNCHANGED view_vars
    /\ UNCHANGED db_vars
    /\ UNCHANGED frames
    /\ UNCHANGED <<whisper_model, librosa, keras_model, transcription, y, sr,
                   duration, raw_output, features, pred_bins, confidences,
                   grouped, total_arg, report>>

\* line 306
Group ==
    /\ pc = "group"
    /\ IF GroupRaises(smoothed, DurationOrZero(duration))
       THEN pc' = "raised" /\ UNCHANGED grouped
       ELSE /\ pc' = "report"
            /\ grouped' = group_consecutive(smoothed, sr, HOP_LENGTH,
                              CHUNK_DURATION, DurationOrZero(duration))
    /\ UNCHANGED view_vars
    /\ UNCHANGED db_vars
    /\ UNCHANGED frames
    /\ UNCHANGED <<whisper_model, librosa, keras_model, transcription, y, sr,
                   duration, raw_output, features, pred_bins, confidences,
                   smoothed, total_arg, report>>

\* lines 307-311
Synthesize ==
    /\ pc = "report"
    /\ report' = Put(generate_report_from_ranges(grouped,
                         Get(raw_output, "num_chunks", 0), duration,
                         transcription),
                     "raw_output", raw_output)
    /\ pc' = "done"
    /\ UNCHANGED view_vars
    /\ UNCHANGED db_vars
    /\ UNCHANGED frames
    /\ UNCHANGED <<whisper_model, librosa, keras_model, transcription, y, sr,
                   duration, raw_output, features, pred_bins, confidences,
                   smoothed, grouped, total_arg>>

Users == 1 .. MaxUsers
Speakers == 1 .. MaxSpeakers

\* models.py line 11 and accounts/signals.py line 21: a speaker starts
\* unassigned; no pairing exists
DbFresh ==
    /\ pairings = {}
    /\ is_assigned = [s \in Speakers |-> FALSE]
    /\ next_pk = 0

\* no view is handling a request
ViewIdle ==
    /\ vpc = "idle"
    /\ request = NoRequest
    /\ tmp_files = {}
    /\ tmp_made = 0
    /\ vlocals = NoLocals
    /\ response = NoResponse

\* the module as imported (lines 8-45) and analyze_audio entered (line 186)
Init ==
    /\ ViewIdle
    /\ DbFresh
    /\ pc = "start"
    /\ frames = NominalFrames(CHUNK_DURATION * SampleRate, HOP_LENGTH)
    /\ whisper_model \in {"none", "ok", "broken"}
    /\ librosa \in BOOLEAN
    /\ keras_model \in KerasModels
    /\ transcription = ""
    /\ y = NoAudio
    /\ sr = NoRate
    /\ duration = NoDuration
    /\ raw_output = EmptyMap
    /\ features = <<>>
    /\ pred_bins = <<>>
    /\ confidences = <<>>
    /\ smoothed = <<>>
    /\ grouped = <<>>
    /\ total_arg = 0
    /\ report = NoReport

Next ==
    \/ Transcribe
    \/ LoadAudio
    \/ EarlyExit
    \/ ExtractFeatures
    \/ ClassifyModel
    \/ ClassifyHeuristic
    \/ Smooth
    \/ Group
    \/ Synthesize

Spec == Init /\ [][Next]_vars

----------------------------------------------------------------------------
(* The stages on their own: _smooth_preds, _group_consecutive and
   _generate_report_from_ranges applied to inputs drawn from bounded sets.
   A run starts at any of the three stages and goes on through the later
   ones, as lines 305-307 chain them.  A fourth kind of run builds the
   feature vector of one chunk from the frame counts of the transforms. *)

\* a zeros, then b ones, then c zeros
Runs3(a, b, c) ==
    [k \in 1 .. (a + b + c) |-> IF k > a /\ k <= a + b THEN 1 ELSE 0]

\* every label sequence up to MaxLen, and the sequences of three runs of at
\* least two chunks each
BinSeqs ==
    UNION {[1 .. n -> {0, 1}] : n \in 0 .. MaxLen}
    \cup {Runs3(a, b, c) : a \in 2 .. MaxRun, b \in 2 .. MaxRun,
                           c \in 2 .. MaxRun}

\* no confidences, or one confidence per label, different at every index
ConfSeqs(n) ==
    {<<>>, [k \in 1 .. n |-> 10 * k], [k \in 1 .. n |-> 100 - 10 * k]}

PairSeqs ==
    {[k \in 1 .. Len(b) |-> <<b[k], IF up THEN 10 * k ELSE 100 - 10 * k>>] :
        b \in BinSeqs, up \in BOOLEAN}

\* audio durations in ticks: before the first hop, inside the first chunks,
\* inside the last chunks, beyond every chunk
StageDurations == {0, 300, 16300, 40000}

\* a range of count chunks starting at chunk first
MkRange(label, first, count) ==
    [start |-> first * HOP_LENGTH,
     end |-> first * HOP_LENGTH + CHUNK_DURATION * SampleRate,
     label |-> label,
     avg_conf |-> [num |-> 50 * count, den |-> count],
     chunks |-> [k \in 1 .. count |-> first + k - 1]]

\* range lists of up to two ranges
RangeLists ==
    {<<>>}
    \cup {<<MkRange(l, 0, s)>> : l \in {"Stammered", "Fluent"},
                                 s \in {1, 3, 13, 200, 223}}
    \cup {<<MkRange("Stammered", 0, s), MkRange("Fluent", s, f)>> :
            s \in {1, 3, 13, 200, 223}, f \in {1, 7, 120}}
    \cup {<<MkRange("Fluent", 0, f), MkRange("Stammered", f, s)>> :
            s \in {1, 3, 13, 200, 223}, f \in {1, 7, 120}}

StageTotals == {0, 1, 3, 10, 20, 343, 667}

StageBlank ==
    /\ whisper_model = "none"
    /\ librosa = TRUE
    /\ keras_model \in {m \in KerasModels : m.kind = "none"}
    /\ transcription \in {"", "hello"}
    /\ y = NoAudio
    /\ sr = SampleRate
    /\ raw_output = EmptyMap
    /\ features = <<>>
    /\ report = NoReport

\* frame counts of the two transforms: a few frames, around the target,
\* and what librosa returns for a chunk of one second
FrameCounts ==
    (1 .. MaxFrameDrift)
    \cup ((TARGET_FRAMES - MaxFrameDrift) .. (TARGET_FRAMES + MaxFrameDrift))
    \cup {NominalFrames(CHUNK_DURATION * SampleRate, HOP_LENGTH).mfcc}

InitStages ==
    /\ ViewIdle
    /\ DbFresh
    /\ StageBlank
    /\ \/ /\ pc = "stage_features"
          /\ frames \in [mfcc : FrameCounts, rms : FrameCounts]
          /\ total_arg = 0
          /\ pred_bins = <<>>
          /\ confidences = <<>>
          /\ duration = SampleRate
          /\ smoothed = <<>>
          /\ grouped = <<>>
       \/ /\ pc = "stage_smooth"
          /\ frames = NominalFrames(CHUNK_DURATION * SampleRate, HOP_LENGTH)
          /\ total_arg \in StageTotals
          /\ pred_bins \in BinSeqs
          /\ confidences \in ConfSeqs(Len(pred_bins))
          /\ duration \in StageDurations
          /\ smoothed = <<>>
          /\ grouped = <<>>
       \/ /\ pc = "stage_group"
          /\ frames = NominalFrames(CHUNK_DURATION * SampleRate, HOP_LENGTH)
          /\ total_arg \in StageTotals
          /\ pred_bins = <<>>
          /\ confidences = <<>>
          /\ duration \in StageDurations
          /\ smoothed \in PairSeqs
          /\ grouped = <<>>
       \/ /\ pc = "stage_report"
          /\ frames = NominalFrames(CHUNK_DURATION * SampleRate, HOP_LENGTH)
          /\ total_arg \in StageTotals
          /\ pred_bins = <<>>
          /\ confidences = <<>>
          /\ duration \in {NoDuration, 0, 16300}
          /\ smoothed = <<>>
          /\ grouped \in RangeLists

StageSmooth ==
    /\ pc = "stage_smooth"
    /\ smoothed' = smooth_preds(pred_bins, confidences, WindowSize)
    /\ pc' = "smoothed"
    /\ UNCHANGED view_vars
    /\ UNCHANGED db_vars
    /\ UNCHANGED frames
    /\ UNCHANGED <<whisper_model, librosa, keras_model, transcription, y, sr,
                   duration, raw_output, features, pred_bins, confidences,
                   grouped, total_arg, report>>

StageGroup ==
    /\ pc \in {"smoothed", "stage_group"}
    /\ grouped' = group_consecutive(smoothed, sr, HOP_LENGTH, CHUNK_DURATION,
                                    duration)
    /\ pc' = "grouped"
    /\ UNCHANGED view_vars
    /\ UNCHANGED db_vars
    /\ UNCHANGED frames
    /\ UNCHANGED <<whisper_model, librosa, keras_model, transcription, y, sr,
                   duration, raw_output, features, pred_bins, confidences,
                   smoothed, total_arg, report>>

StageReport ==
    /\ pc \in {"grouped", "stage_report"}
    /\ report' = generate_report_from_ranges(grouped, total_arg, duration,
                                             transcription)
    /\ pc' = "stage_done"
    /\ UNCHANGED view_vars
    /\ UNCHANGED db_vars
    /\ UNCHANGED frames
    /\ UNCHANGED <<whisper_model, librosa, keras_model, transcription, y, sr,
                   duration, raw_output, features, pred_bins, confidences,
                   smoothed, grouped, total_arg>>

\* lines 247-266: the feature vector of one chunk is built and appended
StageFeatures ==
    /\ pc = "stage_features"
    /\ LET combined == ChunkFeatureShape(frames)
       IN  IF combined.exc
           THEN pc' = "raised" /\ UNCHANGED features
           ELSE /\ pc' = "featured"
                /\ features' = Append(features,
                                      [rows |-> combined.rows,
                                       cols |-> combined.cols])
    /\ UNCHANGED view_vars
    /\ UNCHANGED db_vars
    /\ UNCHANGED <<whisper_model, librosa, keras_model, transcription, y, sr,
                   duration, raw_output, frames, pred_bins, confidences,
                   smoothed, grouped, total_arg, report>>

NextStages == StageFeatures \/ StageSmooth \/ StageGroup \/ StageReport

SpecStages == InitStages /\ [][NextStages]_vars

----------------------------------------------------------------------------
(* therapy_sessions/views.py: the temporary files of the upload views
   convert_to_wav, SessionViewSet.upload_audio and analyze_uploaded_audio.
   tempfile.NamedTemporaryFile(delete=False) creates a file that stays on
   disk until os.remove / os.unlink; such a removal of a file the view has
   just created succeeds.  pydub is imported when the module is (line 28),
   so the import of line 319 succeeds. *)

\* the ml variables while a view runs
MlIdle ==
    /\ pc = "idle"
    /\ whisper_model = "none"
    /\ librosa = TRUE
    /\ keras_model \in {m \in KerasModels : m.kind = "none"}
    /\ transcription = ""
    /\ y = NoAudio
    /\ sr = NoRate
    /\ duration = NoDuration
    /\ raw_output = EmptyMap
    /\ frames = NominalFrames(CHUNK_DURATION * SampleRate, HOP_LENGTH)
    /\ features = <<>>
    /\ pred_bins = <<>>
    /\ confidences = <<>>
    /\ smoothed = <<>>
    /\ grouped = <<>>
    /\ total_arg = 0
    /\ report = NoReport

\* view: the view called; owner: session.user == request.user; has_audio:
\* request.FILES has "audio"; ext_ok: the extension is .wav or .mp3;
\* decodable: AudioSegment.from_file reads the upload; ffmpeg_ok: the ffmpeg
\* command line converts it
Requests ==
    [view : {"upload_audio", "analyze_uploaded_audio"}, owner : BOOLEAN,
     has_audio : BOOLEAN, ext_ok : BOOLEAN, decodable : BOOLEAN,
     ffmpeg_ok : BOOLEAN]

\* lines 40-45: the fallback creates outtmp and runs ffmpeg with check=True
FfmpegFallback(req, files, made) ==
    LET outtmp == made + 1
    IN  [exc |-> ~req.ffmpeg_ok,
         path |-> IF req.ffmpeg_ok THEN outtmp ELSE NoPath,
         files |-> files \cup {outtmp},
         made |-> outtmp]

\* lines 32-45: export_ok tells whether audio.export succeeds
convert_to_wav(req, files, made, export_ok) ==
    IF req.decodable
    THEN LET tmp == made + 1
         IN  IF export_ok
             THEN [exc |-> FALSE, path |-> tmp, files |-> files \cup {tmp},
                   made |-> tmp]
             ELSE FfmpegFallback(req, files \cup {tmp}, tmp)
    ELSE FfmpegFallback(req, files, made)

\* a view returns its response
Respond(code) == vpc' = "returned" /\ response' = code

\* lines 141-147
UploadCheck ==
    /\ vpc = "upload_enter"
    /\ IF ~request.owner THEN Respond(403)
       ELSE IF ~request.has_audio THEN Respond(400)
       ELSE vpc' = "upload_store" /\ UNCHANGED response
    /\ UNCHANGED <<request, tmp_files, tmp_made, vlocals>>
    /\ UNCHANGED ml_vars
    /\ UNCHANGED db_vars

\* lines 150-156, and 167-169 when saving the recording raises
UploadStore ==
    /\ vpc = "upload_store"
    /\ \E saved \in BOOLEAN :
          IF saved THEN vpc' = "upload_first" /\ UNCHANGED response
          ELSE Respond(500)
    /\ UNCHANGED <<request, tmp_files, tmp_made, vlocals>>
    /\ UNCHANGED ml_vars
    /\ UNCHANGED db_vars

\* lines 157-169: the first analysis, on the recording or on its conversion
UploadFirstAnalysis ==
    /\ vpc = "upload_first"
    /\ \E export_ok \in BOOLEAN, analysed \in BOOLEAN, saved \in BOOLEAN :
          IF ~request.ext_ok
          THEN LET c == convert_to_wav(request, tmp_files, tmp_made, export_ok)
               IN  /\ tmp_made' = c.made
                   /\ vlocals' = [vlocals EXCEPT !.converted = c.path]
                   /\ IF c.exc \/ ~analysed
                      THEN tmp_files' = c.files /\ Respond(500)
                      ELSE /\ tmp_files' = c.files \ {c.path}
                           /\ IF saved
                              THEN vpc' = "upload_convert" /\ UNCHANGED response
                              ELSE Respond(500)
          ELSE /\ UNCHANGED <<tmp_files, tmp_made, vlocals>>
               /\ IF analysed /\ saved
                  THEN vpc' = "upload_convert" /\ UNCHANGED response
                  ELSE Respond(500)
    /\ UNCHANGED request
    /\ UNCHANGED ml_vars
    /\ UNCHANGED db_vars

\* lines 172-185: tmp_wav is created, then the recording is decoded and
\* exported into it
UploadConvert ==
    /\ vpc = "upload_convert"
    /\ tmp_made' = tmp_made + 1
    /\ tmp_files' = tmp_files \cup {tmp_made + 1}
    /\ vlocals' = [vlocals EXCEPT !.tmp_wav_path = tmp_made + 1]
    /\ \E export_ok \in BOOLEAN :
          IF request.decodable /\ export_ok
          THEN vpc' = "upload_analyze" /\ UNCHANGED response
          ELSE Respond(500)
    /\ UNCHANGED request
    /\ UNCHANGED ml_vars
    /\ UNCHANGED db_vars

\* lines 188-197: the analysis, and the finally clause
UploadAnalyze ==
    /\ vpc = "upload_analyze"
    /\ tmp_files' = tmp_files \ {vlocals.tmp_wav_path}
    /\ \E analysed \in BOOLEAN :
          IF analysed THEN vpc' = "upload_report" /\ UNCHANGED response
          ELSE Respond(500)
    /\ UNCHANGED <<request, tmp_made, vlocals>>
    /\ UNCHANGED ml_vars
    /\ UNCHANGED db_vars

\* lines 200-220
UploadSaveReport ==
    /\ vpc = "upload_report"
    /\ \E saved \in BOOLEAN : Respond(IF saved THEN 200 ELSE 500)
    /\ UNCHANGED <<request, tmp_files, tmp_made, vlocals>>
    /\ UNCHANGED ml_vars
    /\ UNCHANGED db_vars

\* lines 354-366: the finally clause; while tmp_to_analyze is unbound the
\* second removal raises NameError, which line 365 swallows
Cleanup(files, loc) ==
    LET f1 == files \ {loc.tmp_in}
    IN  IF loc.tmp_to_analyze # NoPath /\ loc.tmp_to_analyze # loc.tmp_in
        THEN f1 \ {loc.tmp_to_analyze}
        ELSE f1

\* lines 300-302
AnalyzeCheck ==
    /\ vpc = "analyze_enter"
    /\ IF ~request.has_audio THEN Respond(400)
       ELSE vpc' = "analyze_save" /\ UNCHANGED response
    /\ UNCHANGED <<request, tmp_files, tmp_made, vlocals>>
    /\ UNCHANGED ml_vars
    /\ UNCHANGED db_vars

\* lines 305-311: tmp_in is created and the upload written to it; a failed
\* write leaves through the finally clause with the exception
AnalyzeSaveUpload ==
    /\ vpc = "analyze_save"
    /\ tmp_made' = tmp_made + 1
    /\ vlocals' = [vlocals EXCEPT !.tmp_in = tmp_made + 1]
    /\ \E written \in BOOLEAN :
          IF written
          THEN /\ tmp_files' = tmp_files \cup {tmp_made + 1}
               /\ vpc' = "analyze_convert"
          ELSE /\ tmp_files' = Cleanup(tmp_files \cup {tmp_made + 1}, vlocals')
               /\ vpc' = "raised"
    /\ UNCHANGED <<request, response>>
    /\ UNCHANGED ml_vars
    /\ UNCHANGED db_vars

\* lines 314-343
AnalyzeConvert ==
    /\ vpc = "analyze_convert"
    /\ IF ~request.ext_ok
       THEN /\ tmp_made' = tmp_made + 1
            /\ \E export_ok \in BOOLEAN :
                  IF request.decodable /\ export_ok
                  THEN /\ tmp_files' = tmp_files \cup {tmp_made + 1}
                       /\ vlocals' = [vlocals EXCEPT
                                         !.tmp_conv = tmp_made + 1,
                                         !.tmp_to_analyze = tmp_made + 1]
                  ELSE /\ tmp_files' = tmp_files
                       /\ vlocals' = [vlocals EXCEPT
                                         !.tmp_conv = tmp_made + 1,
                                         !.tmp_to_analyze = vlocals.tmp_in]
       ELSE /\ vlocals' = [vlocals EXCEPT !.tmp_to_analyze = vlocals.tmp_in]
            /\ UNCHANGED <<tmp_files, tmp_made>>
    /\ vpc' = "analyze_call"
    /\ UNCHANGED <<request, response>>
    /\ UNCHANGED ml_vars
    /\ UNCHANGED db_vars

\* lines 346-366: the analysis, the response and the finally clause
AnalyzeCall ==
    /\ vpc = "analyze_call"
    /\ \E analysed \in BOOLEAN : Respond(IF analysed THEN 200 ELSE 500)
    /\ tmp_files' = Cleanup(tmp_files, vlocals)
    /\ UNCHANGED <<request, tmp_made, vlocals>>
    /\ UNCHANGED ml_vars
    /\ UNCHANGED db_vars

InitViews ==
    /\ MlIdle
    /\ DbFresh
    /\ request \in Requests
    /\ vpc = IF request.view = "upload_audio"
             THEN "upload_enter" ELSE "analyze_enter"
    /\ tmp_files = {}
    /\ tmp_made = 0
    /\ vlocals = NoLocals
    /\ response = NoResponse

NextViews ==
    \/ UploadCheck
    \/ UploadStore
    \/ UploadFirstAnalysis
    \/ UploadConvert
    \/ UploadAnalyze
    \/ UploadSaveReport
    \/ AnalyzeCheck
    \/ AnalyzeSaveUpload
    \/ AnalyzeConvert
    \/ AnalyzeCall

SpecViews == InitViews /\ [][NextViews]_vars

----------------------------------------------------------------------------
(* Pairings: PairingViewSet.perform_create (views.py), Pairing.end and
   release_speaker_on_delete (models.py).  A row of the Pairing table is
   [pk, user, speaker, active].  Each operation runs as one step:
   perform_create is wrapped in transaction.atomic, and an exception inside
   it rolls every write back. *)

\* the speaker_id of a request: missing, the id of a speaker, or an id no
\* speaker has
SpeakerIds == {NoSpeakerId} \cup Speakers \cup {MaxSpeakers + 1}

EndOldOfUser(rows, user, speaker) ==
    {IF r.active /\ r.user = user THEN [r EXCEPT !.active = FALSE] ELSE r :
        r \in rows}

\* views.py lines 74-75: the two filtered updates
EndOld(rows, user, speaker) ==
    {IF r.active /\ (r.user = user \/ r.speaker = speaker)
     THEN [r EXCEPT !.active = FALSE] ELSE r : r \in rows}

\* views.py lines 65-80 (line 70 raises, get_object_or_404 answers 404)
PerformCreate ==
    /\ next_pk < MaxPairings
    /\ \E user \in Users, speaker_id \in SpeakerIds :
          IF speaker_id = NoSpeakerId
          THEN /\ response' = 500
               /\ UNCHANGED db_vars
          ELSE IF speaker_id \notin Speakers
          THEN /\ response' = 404
               /\ UNCHANGED db_vars
          ELSE /\ pairings' =
                    EndOld(pairings, user, speaker_id)
                    \cup {[pk |-> next_pk + 1, user |-> user,
                           speaker |-> speaker_id, active |-> TRUE]}
               /\ next_pk' = next_pk + 1
               /\ is_assigned' = [is_assigned EXCEPT ![speaker_id] = TRUE]
               /\ response' = 201
    /\ UNCHANGED <<vpc, request, tmp_files, tmp_made, vlocals>>
    /\ UNCHANGED ml_vars

\* models.py lines 35-42, on a pairing that is active
PairingEnd ==
    /\ \E r \in pairings :
          /\ r.active
          /\ pairings' = (pairings \ {r}) \cup {[r EXCEPT !.active = FALSE]}
          /\ is_assigned' = [is_assigned EXCEPT ![r.speaker] = FALSE]
    /\ UNCHANGED next_pk
    /\ UNCHANGED view_vars
    /\ UNCHANGED ml_vars

\* a Pairing row is deleted and models.py lines 49-54 handle post_delete
PairingDelete ==
    /\ \E r \in pairings :
          /\ pairings' = pairings \ {r}
          /\ is_assigned' = [is_assigned EXCEPT ![r.speaker] = FALSE]
    /\ UNCHANGED next_pk
    /\ UNCHANGED view_vars
    /\ UNCHANGED ml_vars

InitPairing ==
    /\ MlIdle
    /\ ViewIdle
    /\ DbFresh

NextPairing == PerformCreate \/ PairingEnd \/ PairingDelete

SpecPairing == InitPairing /\ [][NextPairing]_vars

----------------------------------------------------------------------------
(* Claims about analyze_audio (Spec) *)

ReportKeys ==
    {"date", "stammeredPeriods", "stammeredChunks", "fluentChunks",
     "stammerRate", "stammer_rate", "audioDuration", "severity",
     "recommendations", "transcription"}

\* the guard of some action of Next holds (every action's other conjuncts
\* only assign the next state, so this is when analyze_audio can go on)
CanStep ==
    \/ pc \in {"start", "load", "smooth", "group", "report"}
    \/ (pc = "check_audio" /\ NoWaveform(y, sr))
    \/ (pc = "check_audio" /\ ~NoWaveform(y, sr))
    \/ (pc = "classify" /\ UseModel(keras_model, features))
    \/ (pc = "classify" /\ ~UseModel(keras_model, features))

\* C1: analyze_audio never raises and every execution path ends by returning
\* a report mapping: no state has an exception escaping, every state that is
\* not the return has a next step, and the return carries a report with all
\* the report keys.
C1_AlwaysReturnsReport ==
    /\ pc # "raised"
    /\ (pc # "done" => CanStep)
    /\ (pc = "done" => ReportKeys \subseteq DOMAIN report)

\* transcription and feature extraction both failed, and a report came back
C1_Witness ==
    /\ pc = "done"
    /\ whisper_model = "broken"
    /\ y.loaded /\ ~y.finite /\ y.len >= SampleRate
    /\ ReportKeys \subseteq DOMAIN report

\* C2: every returned report has a stammer rate in [0, 100] (hundredths of a
\* percent: 0 .. 10000).
C2_RateInRange ==
    pc = "done" => (report.stammer_rate >= 0 /\ report.stammer_rate <= 10000)

\* the model path on more chunks than the energy sample holds, all stammered
C2_Witness ==
    /\ pc = "done"
    /\ keras_model.kind = "ok"
    /\ Len(features) > EnergySampleCap
    /\ report.stammer_rate = 10000

\* C3: on the heuristic path the stammered and fluent chunk counts of the
\* report add up to raw_output.num_chunks.
C3_HeuristicCountsSumToNumChunks ==
    (pc = "done" /\ y.loaded /\ keras_model.kind = "none")
        => report.stammeredChunks + report.fluentChunks
               = report.raw_output["num_chunks"]

\* C6: when the audio cannot be loaded or no chunk is produced, the report is
\* all zero, "Low", with the placeholder period list.
C6_NoChunksMinimalReport ==
    (pc = "done" /\ (~y.loaded \/ Len(features) = 0))
        => /\ report.stammeredChunks = 0
           /\ report.fluentChunks = 0
           /\ report.stammer_rate = 0
           /\ report.severity = "Low"
           /\ report.stammeredPeriods = <<"None">>

\* feature extraction failed on a waveform of several chunks and the
\* synthesizer produced the report
C6_Witness ==
    /\ pc = "done"
    /\ y.loaded /\ ~y.finite /\ y.len > SampleRate + HOP_LENGTH
    /\ Len(features) = 0
    /\ "raw_output" \in DOMAIN report
    /\ report.stammeredPeriods = <<"None">>

\* C7: every returned report carries exactly the recommendation list of its
\* severity tier.
C7_RecommendationsOfSeverity ==
    pc = "done" => report.recommendations = recs_map[report.severity]

\* C8: every returned report has a raw_output mapping with the keys duration,
\* num_chunks and the energy sample, the sample holding at most 50 energies.
C8_RawOutputKeys ==
    pc = "done"
        => /\ "raw_output" \in DOMAIN report
           /\ {"duration", "num_chunks", "chunk_energies_sample"}
                  \subseteq DOMAIN report.raw_output
           /\ Len(report.raw_output["chunk_energies_sample"])
                  <= EnergySampleCap

\* C9: the energy heuristic classifies the chunks whenever no model is
\* available or the model path yields empty output: once classification is
\* over, a non-empty feature batch whose model is absent or failed has the
\* heuristic's predictions.
C9_HeuristicWhenModelOutputEmpty ==
    (pc = "smooth" /\ Len(features) > 0
        /\ keras_model.kind \in {"none", "broken"})
        => /\ pred_bins # <<>>
           /\ pred_bins = Heuristic(raw_output).bins

\* t (in quarters) sits at the 25th percentile of the energies e: at most
\* ceil((n - 1) / 4) of them lie strictly below it, at least
\* floor((n - 1) / 4) + 1 lie at or below it, and it is no smaller than the
\* smallest
AtPercentile25(e, t) ==
    LET n == Len(e)
        below == Cardinality({k \in 1 .. n : 4 * e[k] < t})
        upto == Cardinality({k \in 1 .. n : 4 * e[k] <= t})
    IN  /\ 4 * below <= (n - 1) + 3
        /\ 4 * upto > (n - 1) - ((n - 1) % 4)
        /\ \A k \in 1 .. n : \E j \in 1 .. n : e[j] <= e[k] /\ 4 * e[j] <= t

\* the heuristic has classified a non-empty energy list
HeuristicRan ==
    /\ pc = "smooth"
    /\ ~UseModel(keras_model, features)
    /\ "heuristic_threshold" \in DOMAIN raw_output

\* C13: on the heuristic path, with t the 25th percentile of the classified
\* energies, chunk k is labelled 1 iff its energy is strictly below t and
\* its confidence is |energy - t|, in the order of the energies.
C13_HeuristicLabelsAndConfidences ==
    HeuristicRan
        => LET e == raw_output["chunk_energies_sample"]
               t == raw_output["heuristic_threshold"]
           IN  /\ AtPercentile25(e, t)
               /\ Len(pred_bins) = Len(e)
               /\ Len(confidences) = Len(e)
               /\ \A k \in 1 .. Len(e) :
                     /\ pred_bins[k] \in {0, 1}
                     /\ (pred_bins[k] = 1) <=> (4 * e[k] < t)
                     /\ confidences[k] = Abs(4 * e[k] - t)

\* one chunk strictly below the threshold, and chunks whose energy equals it
C13_Witness ==
    /\ HeuristicRan
    /\ \E k \in 1 .. Len(pred_bins) :
          pred_bins[k] = 1 /\ confidences[k] > 0
    /\ \E k \in 1 .. Len(pred_bins) :
          /\ 4 * raw_output["chunk_energies_sample"][k]
                = raw_output["heuristic_threshold"]
          /\ pred_bins[k] = 0
          /\ confidences[k] = 0

\* feature extraction has run to its end without raising
Extracted ==
    /\ pc \in {"classify", "smooth", "group", "report", "done"}
    /\ y.loaded
    /\ "chunk_energies_sample" \in DOMAIN raw_output

\* C20: for a waveform of L samples whose feature extraction completes, the
\* number of feature vectors, of chunk energies and raw_output.num_chunks
\* all equal max(0, floor((L - 16000) / 128) + 1); chunk i starts at sample
\* 128 * i and ends inside the waveform, and every start that leaves room
\* for a whole chunk is a chunk: none is dropped, none is padded.
C20_ChunkCount ==
    Extracted
        => LET L == y.len
               n == IF L < 16000 THEN 0 ELSE ((L - 16000) \div 128) + 1
           IN  /\ Len(features) = n
               /\ raw_output["num_chunks"] = n
               /\ Len(raw_output["chunk_energies_sample"])
                     = (IF n < EnergySampleCap THEN n ELSE EnergySampleCap)
               /\ \A i \in 0 .. (n - 1) : 128 * i + 16000 <= L
               /\ 128 * n + 16000 > L
               /\ \A i \in 0 .. (n - 1) :
                     features[i + 1] = ChunkEnergy(y, i)

\* a waveform of one chunk and a tail shorter than one hop
C20_Witness ==
    /\ Extracted
    /\ y.len = 16127
    /\ Len(features) = 1
    /\ raw_output["num_chunks"] = 1


RECURSIVE FlatChunks(_)
FlatChunks(ranges) ==
    IF ranges = <<>> THEN <<>>
    ELSE Head(ranges).chunks \o FlatChunks(Tail(ranges))

\* C4: the member-chunk lists of the ranges of a sequence of n pairs,
\* concatenated in range order, are exactly 0, 1, ..., n - 1.
C4_RangesPartitionChunks ==
    pc = "grouped"
        => FlatChunks(grouped) = [k \in 1 .. Len(smoothed) |-> k - 1]

\* a sequence of MaxLen chunks grouped into at least three ranges
C4_Witness ==
    /\ pc = "grouped"
    /\ Len(smoothed) = MaxLen
    /\ Len(grouped) >= 3

\* C5: the severity is Low below 30.00, Moderate from 30.00 to 65.00 and High
\* above 65.00, on the rate rounded to 2 decimals.
C5_SeverityTiers ==
    pc = "stage_done"
        => LET r == report.stammer_rate
           IN  /\ (r < 3000 => report.severity = "Low")
               /\ ((r >= 3000 /\ r <= 6500) => report.severity = "Moderate")
               /\ (r > 6500 => report.severity = "High")
               /\ report.severity \in {"Low", "Moderate", "High"}

\* the rate 30.00 exactly, which is Moderate
C5_Witness ==
    /\ pc = "stage_done"
    /\ report.stammer_rate = 3000
    /\ report.stammerRate = "30.00%"
    /\ report.severity = "Moderate"

\* the 1s among labels[lo .. hi - 1] (0-based, hi exclusive)
OnesIn(labels, lo, hi) ==
    Cardinality({j \in lo .. (hi - 1) : labels[j + 1] = 1})

\* C10: smoothing n labels gives n pairs; pair i is labelled 1 iff the 1s
\* among labels[max(0, i-1) .. min(n, i+2) - 1] are strictly more than half
\* of that window, and carries confidences[i], or 0 without confidences.
C10_SmoothMajorityWindow ==
    pc = "smoothed"
        => /\ Len(smoothed) = Len(pred_bins)
           /\ \A i \in 0 .. (Len(pred_bins) - 1) :
                LET lo == Max(0, i - 1)
                    hi == Min(Len(pred_bins), i + 2)
                IN  /\ (smoothed[i + 1][1] = 1)
                          <=> (2 * OnesIn(pred_bins, lo, hi) > hi - lo)
                    /\ smoothed[i + 1][1] \in {0, 1}
                    /\ smoothed[i + 1][2] =
                         (IF confidences = <<>> THEN 0 ELSE confidences[i + 1])

\* a tie at the end of the sequence: a window of two labels with one 1
C10_Witness ==
    /\ pc = "smoothed"
    /\ Len(pred_bins) = MaxLen
    /\ confidences # <<>>
    /\ pred_bins[1] = 1 /\ pred_bins[2] = 0
    /\ smoothed[1] = <<0, confidences[1]>>

\* the labels and the confidences of a list of pairs
LabelsOf(pairs) == [k \in 1 .. Len(pairs) |-> pairs[k][1]]
ConfsOf(pairs) == [k \in 1 .. Len(pairs) |-> pairs[k][2]]

Uniform(labels) == \A k \in 1 .. Len(labels) : labels[k] = labels[1]

\* C11: smoothing an all-0 or an all-1 label sequence of any length n >= 1
\* (n = 1 and n = 2 included) returns the labels unchanged and, given one
\* confidence per label, the confidences unchanged.
C11_UniformUnchanged ==
    (pc = "smoothed" /\ Len(pred_bins) >= 1 /\ Uniform(pred_bins))
        => /\ LabelsOf(smoothed) = pred_bins
           /\ (confidences # <<>> => ConfsOf(smoothed) = confidences)

\* two 1s: both windows are shorter than the window size
C11_Witness ==
    /\ pc = "smoothed"
    /\ pred_bins = <<1, 1>>
    /\ confidences = <<10, 20>>
    /\ smoothed = <<<<1, 10>>, <<1, 20>>>>

----------------------------------------------------------------------------
(* Claims about the upload views (SpecViews) *)

\* C12: when an upload view returns, on any exit path, every temporary file
\* it created has been deleted.
C12_TempFilesDeleted ==
    vpc \in {"returned", "raised"} => tmp_files = {}

----------------------------------------------------------------------------
(* Claims about feature extraction *)

\* C14: the feature vector of a chunk has exactly 86 time frames and 29
\* channels (13 MFCC, 13 delta, pause, energy variance, pitch proxy), whether
\* the MFCC and RMS transforms return fewer frames than 86, 86 or more, and
\* building it does not fail.
C14_FeatureShape ==
    /\ pc # "raised"
    /\ pc = "featured"
         => /\ Len(features) = 1
            /\ features[1].rows = 86
            /\ features[1].cols = 13 + 13 + 1 + 1 + 1
            /\ features[1].cols = 29

\* the MFCC transform returned fewer frames than the target and the RMS
\* transform more
C14_Witness ==
    /\ pc = "featured"
    /\ frames.mfcc < TARGET_FRAMES
    /\ frames.rms > TARGET_FRAMES
    /\ features = <<[rows |-> 86, cols |-> 29]>>

----------------------------------------------------------------------------
(* Claims about smoothing followed by grouping *)

\* chunks first, first + 1, ..., first + count - 1
ChunkRun(first, count) == [k \in 1 .. count |-> first + k - 1]

\* C15: a label sequence of a zeros, b ones and c zeros with a, b, c >= 2 is
\* left unchanged by smoothing, and grouping then yields exactly three
\* ranges, Fluent, Stammered, Fluent, whose chunk lists are the a, the b and
\* the c chunks of the runs.
C15_ThreeRuns ==
    pc = "grouped"
        => \A a \in 2 .. Len(pred_bins), b \in 2 .. Len(pred_bins),
              c \in 2 .. Len(pred_bins) :
                pred_bins = Runs3(a, b, c)
                    => /\ LabelsOf(smoothed) = pred_bins
                       /\ Len(grouped) = 3
                       /\ grouped[1].label = "Fluent"
                       /\ grouped[2].label = "Stammered"
                       /\ grouped[3].label = "Fluent"
                       /\ grouped[1].chunks = ChunkRun(0, a)
                       /\ grouped[2].chunks = ChunkRun(a, b)
                       /\ grouped[3].chunks = ChunkRun(a + b, c)

\* two zeros, three ones, two zeros
C15_Witness ==
    /\ pc = "grouped"
    /\ pred_bins = <<0, 0, 1, 1, 1, 0, 0>>
    /\ Len(grouped) = 3
    /\ grouped[2].label = "Stammered"
    /\ grouped[2].chunks = <<2, 3, 4>>

\* chunk i (0-based, interior) of labels differs from both its neighbours
Flicker(labels, i) ==
    /\ labels[i + 1] # labels[i]
    /\ labels[i + 1] # labels[i + 2]

\* C16: no interior chunk of the smoothed sequence has a label that differs
\* from the smoothed labels of both its neighbours.
C16_NoFlickerInOutput ==
    pc = "smoothed"
        => \A i \in 1 .. (Len(smoothed) - 2) :
              ~Flicker(LabelsOf(smoothed), i)

\* C16, amended: every interior chunk whose input label differs from the
\* input labels of both its neighbours gets its neighbours' label.
C16_InputFlickerRemoved ==
    pc = "smoothed"
        => \A i \in 1 .. (Len(pred_bins) - 2) :
              Flicker(pred_bins, i) => smoothed[i + 1][1] = pred_bins[i]

\* alternating labels: every input flicker is flipped, and the flip of
\* chunks 1 and 3 leaves chunk 2 alone between them
C16_Witness ==
    /\ pc = "smoothed"
    /\ pred_bins = <<0, 1, 0, 1, 0>>
    /\ LabelsOf(smoothed) = <<0, 0, 1, 0, 0>>

----------------------------------------------------------------------------
(* Claims about _group_consecutive (SpecStages) *)

\* C17: a range whose first member chunk is s starts at
\* min(s * hop / sr, audio_duration) and ends at
\* min(s * hop / sr + chunk_duration, audio_duration), however many chunks
\* it has, so that 0 <= start <= end <= audio_duration (times in ticks).
C17_RangeTimes ==
    pc = "grouped"
        => \A k \in 1 .. Len(grouped) :
              LET r == grouped[k]
                  first == r.chunks[1] * HOP_LENGTH
              IN  /\ r.chunks # <<>>
                  /\ r.start = Min(first, duration)
                  /\ r.end = Min(first + CHUNK_DURATION * SampleRate,
                                 duration)
                  /\ 0 <= r.start
                  /\ r.start <= r.end
                  /\ r.end <= duration

\* a range of several chunks that does not start at chunk 0 and ends, before
\* the end of the audio, one chunk duration after its start
C17_Witness ==
    /\ pc = "grouped"
    /\ \E k \in 1 .. Len(grouped) :
          /\ Len(grouped[k].chunks) >= 2
          /\ grouped[k].chunks[1] > 0
          /\ grouped[k].start = grouped[k].chunks[1] * HOP_LENGTH
          /\ grouped[k].end = grouped[k].start + CHUNK_DURATION * SampleRate
          /\ grouped[k].end < duration

\* C18: every range is a maximal run: its member indices are consecutive,
\* every member has the smoothed label the range names (1 = Stammered,
\* 0 = Fluent), adjacent ranges have different labels, and an empty input
\* gives an empty range list.
C18_MaximalRuns ==
    pc = "grouped"
        => /\ (smoothed = <<>> => grouped = <<>>)
           /\ \A k \in 1 .. Len(grouped) :
                LET r == grouped[k]
                IN  /\ r.label \in {"Stammered", "Fluent"}
                    /\ \A j \in 1 .. (Len(r.chunks) - 1) :
                          r.chunks[j + 1] = r.chunks[j] + 1
                    /\ \A j \in 1 .. Len(r.chunks) :
                          /\ r.chunks[j] \in 0 .. (Len(smoothed) - 1)
                          /\ (smoothed[r.chunks[j] + 1][1] = 1)
                                <=> (r.label = "Stammered")
           /\ \A k \in 1 .. (Len(grouped) - 1) :
                grouped[k].label # grouped[k + 1].label

\* a run of several chunks next to a run of the other label
C18_Witness ==
    /\ pc = "grouped"
    /\ Len(grouped) = 2
    /\ Len(grouped[1].chunks) >= 2
    /\ Len(grouped[2].chunks) >= 2
    /\ grouped[1].label = "Stammered"
    /\ grouped[2].label = "Fluent"

----------------------------------------------------------------------------
(* Claims about _generate_report_from_ranges (SpecStages) *)

\* the member chunks of the ranges that are (stam) or are not (~stam)
\* labelled Stammered
MembersOf(ranges, stam) ==
    SumSeq([k \in 1 .. Len(ranges) |->
               IF (ranges[k].label = "Stammered") = stam
               THEN Len(ranges[k].chunks) ELSE 0])

\* r hundredths is num / den rounded to 2 decimals as a percentage: a
\* nearest hundredth
RoundedRate(r, num, den) ==
    2 * Abs(10000 * num - r * den) <= den

\* C19: the report counts the member chunks of the Stammered ranges and of
\* the other ranges, takes as total the provided count when it is not zero
\* and the sum of the two counts otherwise, and gives the rate
\* 100 * stammered / total rounded to 2 decimals when total > 0, else 0.
C19_ReportCounts ==
    pc = "stage_done"
        => LET st == MembersOf(grouped, TRUE)
               fl == MembersOf(grouped, FALSE)
               total == IF total_arg # 0 THEN total_arg ELSE st + fl
           IN  /\ report.stammeredChunks = st
               /\ report.fluentChunks = fl
               /\ IF total > 0
                  THEN RoundedRate(report.stammer_rate, st, total)
                  ELSE report.stammer_rate = 0

\* 3 stammered and 7 fluent chunks reported against a provided total of 20
C19_Witness ==
    /\ pc = "stage_done"
    /\ total_arg = 20
    /\ report.stammeredChunks = 3
    /\ report.fluentChunks = 7
    /\ report.stammer_rate = 1500

----------------------------------------------------------------------------
(* Claims about pairings (SpecPairing) *)

ActiveOfUser(u) == {r \in pairings : r.active /\ r.user = u}
ActiveOfSpeaker(sp) == {r \in pairings : r.active /\ r.speaker = sp}

\* C21: after any sequence of pairing creations, each run atomically, every
\* user has at most one active Pairing and every speaker has at most one.
C21_OneActivePairing ==
    /\ \A u \in Users : Cardinality(ActiveOfUser(u)) <= 1
    /\ \A sp \in Speakers : Cardinality(ActiveOfSpeaker(sp)) <= 1

\* three pairings created and none deleted: the last one has replaced a
\* pairing of its user and a pairing of its speaker
C21_Witness ==
    /\ Cardinality(pairings) = 3
    /\ next_pk = 3
    /\ \E new \in pairings, a \in pairings, b \in pairings :
          /\ new.active /\ new.pk = 3
          /\ ~a.active /\ a.user = new.user /\ a.speaker # new.speaker
          /\ ~b.active /\ b.speaker = new.speaker /\ b.user # new.user

\* C22: after any sequence of pairing creations, Pairing.end() calls and
\* Pairing deletions, a speaker's is_assigned flag is true exactly when the
\* speaker has an active Pairing.
C22_AssignedIffActivePairing ==
    \A sp \in Speakers : is_assigned[sp] <=> (ActiveOfSpeaker(sp) # {})

=============================================================================
